---- MODULE Spec2Model ----
(***************************************************************************)
(* Model of chesscom.py: the dashboard request handler, process_all_modes   *)
(* (date parsing, archive selection, fetch loop, per-game normalisation)    *)
(* and the aggregators that turn the record collection into chart data.     *)
(*                                                                          *)
(* Representation of Python values:                                         *)
(*   - a str that the code inspects character by character (START_DATE,     *)
(*     usernames, the numeric URL segments) is a sequence of one-character  *)
(*     strings; a str that is only compared or suffixed is a TLA+ string;   *)
(*   - an archive URL is the sequence of its '/'-separated segments;        *)
(*   - a JSON object is a function on its keys;                             *)
(*   - a POSIX timestamp is an integer number of seconds, a naive local     *)
(*     datetime is the number of seconds since 1970-01-01T00:00 local;      *)
(*   - a float that is a quotient of integers is kept as the exact          *)
(*     fraction [num, den].                                                 *)
(***************************************************************************)
EXTENDS Integers, Sequences, FiniteSets, TLC

VARIABLES
    pc,                 \* position of the request in dashboard / process_all_modes
    START_DATE,         \* configured cutoff date, as text
    utcoffset,          \* seconds east of UTC of the machine's local time zone
    fetches,            \* get_data calls made so far, in order
    profile,            \* dashboard: profile response
    stats,              \* dashboard: stats response
    current_ratings,    \* dashboard: mode name -> current rating
    start_dt,           \* process_all_modes: parsed cutoff [year, month, day]
    all_archives,       \* process_all_modes: archive URLs of the index
    relevant_archives,  \* process_all_modes: archive URLs kept by the cutoff
    fetched,            \* process_all_modes: the value of data in each pass of the archive loop
    history_data,       \* process_all_modes: records collected so far
    df,                 \* the DataFrame built from history_data
    GAME_INTERVAL,      \* milestone interval N
    chart,              \* result of the last aggregator call
    response            \* what the request returned

vars == <<pc, START_DATE, utcoffset, fetches, profile, stats, current_ratings, start_dt,
          all_archives, relevant_archives, fetched, history_data, df,
          GAME_INTERVAL, chart, response>>

\* Python's None, and a raised ValueError, as values distinct from every JSON object
None == [isNone |-> TRUE]
ValueError == [error |-> "ValueError"]

-----------------------------------------------------------------------------
(* Bounds of the model *)

MaxArchives == 2    \* archive URLs in an index response
MaxGames == 2       \* raw games over all archive responses of one run
MaxRecords == 2     \* rows of a DataFrame handed directly to an aggregator
MaxInterval == 2    \* largest milestone interval tried

-----------------------------------------------------------------------------
(* Text helpers *)

Digits == {"0", "1", "2", "3", "4", "5", "6", "7", "8", "9"}

DigitVal(c) ==
    CASE c = "0" -> 0 [] c = "1" -> 1 [] c = "2" -> 2 [] c = "3" -> 3 [] c = "4" -> 4
      [] c = "5" -> 5 [] c = "6" -> 6 [] c = "7" -> 7 [] c = "8" -> 8 [] c = "9" -> 9

IsNumber(s) == Len(s) > 0 /\ \A i \in 1..Len(s) : s[i] \in Digits

\* int(s) for a string of decimal digits
RECURSIVE ToInt(_)
ToInt(s) ==
    IF s = <<>> THEN 0
    ELSE 10 * ToInt(SubSeq(s, 1, Len(s) - 1)) + DigitVal(s[Len(s)])

\* str.lower(), character by character
LowerChar(c) ==
    CASE c = "K" -> "k" [] c = "X" -> "x" [] c = "R" -> "r" [] c = "O" -> "o"
      [] c = "P" -> "p" [] c = "A" -> "a" [] c = "L" -> "l"
      [] OTHER -> c

Lower(s) == [i \in 1..Len(s) |-> LowerChar(s[i])]

\* str.capitalize() of a time class
Capitalize(s) ==
    CASE s = "rapid" -> "Rapid" [] s = "blitz" -> "Blitz"
      [] s = "bullet" -> "Bullet" [] s = "daily" -> "Daily"
      [] s = "bughouse" -> "Bughouse"
      [] OTHER -> s

\* the fields of s between the separators sep, as str.split(sep) gives them
RECURSIVE Split(_, _)
Split(s, sep) ==
    IF \A i \in 1..Len(s) : s[i] # sep THEN <<s>>
    ELSE LET k == CHOOSE i \in 1..Len(s) :
                      s[i] = sep /\ \A j \in 1..(i - 1) : s[j] # sep
         IN  <<SubSeq(s, 1, k - 1)>> \o Split(SubSeq(s, k + 1, Len(s)), sep)

\* dict.get(key, default)
Get(d, key, default) == IF key \in DOMAIN d THEN d[key] ELSE default

\* truth value of a get_data result: None and the empty object are falsy
Truthy(x) == x # None /\ DOMAIN x # {}

-----------------------------------------------------------------------------
(* Calendar *)

DaySeconds == 86400

IsLeap(y) == (y % 4 = 0 /\ y % 100 # 0) \/ y % 400 = 0

DaysInMonth(y, m) ==
    IF m = 2 THEN (IF IsLeap(y) THEN 29 ELSE 28)
    ELSE IF m \in {4, 6, 9, 11} THEN 30 ELSE 31

\* days from 1970-01-01 to the civil date y-m-d (proleptic Gregorian)
DaysFromCivil(y, m, d) ==
    LET yy  == IF m <= 2 THEN y - 1 ELSE y
        era == yy \div 400
        yoe == yy - era * 400
        mp  == IF m > 2 THEN m - 3 ELSE m + 9
        doy == (153 * mp + 2) \div 5 + d - 1
        doe == yoe * 365 + yoe \div 4 - yoe \div 100 + doy
    IN  era * 146097 + doe - 719468

\* datetime.strptime(s, "%Y-%m-%d"): the parsed date, or ValueError
Strptime(s) ==
    LET f == Split(s, "-")
    IN  IF Len(f) # 3 THEN ValueError
        ELSE IF ~(IsNumber(f[1]) /\ Len(f[1]) = 4) THEN ValueError
        ELSE IF ~(IsNumber(f[2]) /\ Len(f[2]) <= 2) THEN ValueError
        ELSE IF ~(IsNumber(f[3]) /\ Len(f[3]) <= 2) THEN ValueError
        ELSE LET y == ToInt(f[1])
                 m == ToInt(f[2])
                 d == ToInt(f[3])
             IN  IF y < 1 \/ m < 1 \/ m > 12 \/ d < 1 THEN ValueError
                 ELSE IF d > DaysInMonth(y, m) THEN ValueError
                 ELSE [year |-> y, month |-> m, day |-> d]

\* naive local datetime of midnight of a parsed date
LocalMidnight(dt) == DaysFromCivil(dt.year, dt.month, dt.day) * DaySeconds

\* datetime.timestamp() of a naive local datetime
Timestamp(local, off) == local - off

\* datetime.fromtimestamp(ts): the naive local datetime
FromTimestamp(ts, off) == ts + off

-----------------------------------------------------------------------------
(* Configuration *)

USERNAME == <<"k", "x", "r", "o", "o", "k">>

-----------------------------------------------------------------------------
(* process_all_modes: archive selection *)

ArchiveYear(url) == ToInt(url[Len(url) - 1])
ArchiveMonth(url) == ToInt(url[Len(url)])

\* the test of line 67
IsRelevantAlt(url, dt) ==
    (ArchiveYear(url) > dt.year)
        \/ (ArchiveYear(url) = dt.year /\ ArchiveMonth(url) > dt.month)

IsRelevant(url, dt) ==
    (ArchiveYear(url) > dt.year)
        \/ (ArchiveYear(url) = dt.year /\ ArchiveMonth(url) >= dt.month)

\* the loop of lines 62-68
RECURSIVE SelectArchives(_, _)
SelectArchives(urls, dt) ==
    IF urls = <<>> THEN <<>>
    ELSE (IF IsRelevant(Head(urls), dt) THEN <<Head(urls)>> ELSE <<>>)
             \o SelectArchives(Tail(urls), dt)

-----------------------------------------------------------------------------
(* process_all_modes: normalisation of one raw game *)

TimeClasses == {"rapid", "blitz", "bullet", "daily"}

DrawOrWinCodes == {"win", "agreed", "repetition", "stalemate", "insufficient_material",
                   "50move", "timevsinsufficientmaterial"}

LossCodes == {"checkmated", "resigned", "timeout", "abandoned"}

\* lines 96-103, with the fallback changed to a loss
GameStatusAlt(game_result) ==
    IF game_result \in DrawOrWinCodes
    THEN (IF game_result = "win" THEN "Win" ELSE "Draw")
    ELSE "Loss"

\* lines 96-103
GameStatus(game_result) ==
    IF game_result \in DrawOrWinCodes
    THEN (IF game_result = "win" THEN "Win" ELSE "Draw")
    ELSE IF game_result \in LossCodes THEN "Loss"
    ELSE "Draw"

\* lines 87-90 with the usernames compared as written
UserColorAlt(game, username) ==
    IF game["white"]["username"] = username THEN "white" ELSE "black"

\* lines 87-90
UserColor(game, username) ==
    IF Lower(game["white"]["username"]) = Lower(username) THEN "white" ELSE "black"

\* lines 106-108 with the suffix set off by a space
ModeNameAlt(time_class, is_960) ==
    IF is_960 THEN Capitalize(time_class) \o " 960" ELSE Capitalize(time_class)

\* lines 106-108
ModeName(time_class, is_960) ==
    IF is_960 THEN Capitalize(time_class) \o "960" ELSE Capitalize(time_class)

\* lines 79-116 with the cutoff test dropped
ProcessGameAlt(game, username, start_timestamp, off) ==
    LET time_class == Get(game, "time_class", None)
        rules      == Get(game, "rules", "chess")
        is_960     == (rules = "chess960")
        user_color == UserColor(game, username)
    IN  IF time_class \in TimeClasses
        THEN <<[Date   |-> FromTimestamp(game["end_time"], off),
                Rating |-> game[user_color]["rating"],
                Mode   |-> ModeName(time_class, is_960),
                Status |-> GameStatus(game[user_color]["result"]),
                Is960  |-> is_960]>>
        ELSE <<>>

\* lines 79-116: the records one raw game adds to history_data
ProcessGame(game, username, start_timestamp, off) ==
    IF game["end_time"] < start_timestamp THEN <<>>
    ELSE LET time_class == Get(game, "time_class", None)
             rules      == Get(game, "rules", "chess")
             is_960     == (rules = "chess960")
             user_color == UserColor(game, username)
         IN  IF time_class \in TimeClasses
             THEN <<[Date   |-> FromTimestamp(game["end_time"], off),
                     Rating |-> game[user_color]["rating"],
                     Mode   |-> ModeName(time_class, is_960),
                     Status |-> GameStatus(game[user_color]["result"]),
                     Is960  |-> is_960]>>
             ELSE <<>>

\* lines 78-116: the loop over the games of one archive response
RECURSIVE ProcessGames(_, _, _, _)
ProcessGames(games, username, start_timestamp, off) ==
    IF games = <<>> THEN <<>>
    ELSE ProcessGame(Head(games), username, start_timestamp, off)
             \o ProcessGames(Tail(games), username, start_timestamp, off)

\* lines 75-78: the records one archive response adds (none when the fetch failed)
ArchiveRecords(resp, username, start_timestamp, off) ==
    IF ~Truthy(resp) THEN <<>>
    ELSE ProcessGames(Get(resp, "games", <<>>), username, start_timestamp, off)

\* pd.DataFrame(rows): a list of dicts gives their keys as columns, an empty list none
DataFrame(rows) ==
    [columns |-> IF rows = <<>> THEN {} ELSE {"Date", "Rating", "Mode", "Status", "Is960"},
     rows    |-> rows]

\* DataFrame.empty
IsEmpty(frame) == frame.rows = <<>> \/ frame.columns = {}

-----------------------------------------------------------------------------
(* dashboard: current ratings *)

EmptyDict == [k \in {} |-> 0]

StatsKeys == {"chess_rapid", "chess_blitz", "chess_bullet", "chess_daily",
              "chess960_daily", "chess960_rapid", "chess960_blitz", "chess960_bullet"}

\* lines 687 and 694-695: the mode name a stats key is filed under
StatsModeName(key) ==
    CASE key = "chess_rapid" -> "Rapid" [] key = "chess_blitz" -> "Blitz"
      [] key = "chess_bullet" -> "Bullet" [] key = "chess_daily" -> "Daily"
      [] key = "chess960_daily" -> "Daily" \o "960"
      [] key = "chess960_rapid" -> "Rapid" \o "960"
      [] key = "chess960_blitz" -> "Blitz" \o "960"
      [] key = "chess960_bullet" -> "Bullet" \o "960"

\* lines 683-696
CurrentRatings(resp) ==
    IF ~Truthy(resp) THEN EmptyDict
    ELSE LET present == StatsKeys \cap DOMAIN resp
         IN  [name \in {StatsModeName(k) : k \in present} |->
                 LET k == CHOOSE k \in present : StatsModeName(k) = name
                 IN  resp[k]["last"]["rating"]]

-----------------------------------------------------------------------------
(* The responses the chess.com API may give, and the configurations tried *)

\* sequences over S of length at most n
SeqsUpTo(S, n) == UNION {[1..k -> S] : k \in 0..n}

Text_2025_11_01 == <<"2", "0", "2", "5", "-", "1", "1", "-", "0", "1">>
Text_2025_11_15 == <<"2", "0", "2", "5", "-", "1", "1", "-", "1", "5">>
Text_2025_1_5   == <<"2", "0", "2", "5", "-", "1", "-", "5">>
Text_2026_01_01 == <<"2", "0", "2", "6", "-", "0", "1", "-", "0", "1">>
Text_slashes    == <<"2", "0", "2", "5", "/", "1", "1", "/", "0", "1">>
Text_month_13   == <<"2", "0", "2", "5", "-", "1", "3", "-", "0", "1">>
Text_feb_30     == <<"2", "0", "2", "5", "-", "0", "2", "-", "3", "0">>
Text_dmy        == <<"0", "1", "-", "1", "1", "-", "2", "0", "2", "5">>

ValidDates == {Text_2025_11_01, Text_2025_11_15}
InvalidDates == {Text_slashes, Text_month_13, Text_feb_30, Text_dmy}
StartDates == {Text_2025_11_01} \cup InvalidDates

UTCOffsets == {-18000, 3600}

ProfileResponses == {None, [username |-> "kxrook"]}

StatsResponses ==
    {None,
     [chess_blitz |-> [last |-> [rating |-> 1500]],
      chess960_rapid |-> [last |-> [rating |-> 1400]]]}

ArchiveUrl(y, m) == <<"api.chess.com", "pub", "player", "kxrook", "games", y, m>>

Url_2024_12 == ArchiveUrl(<<"2", "0", "2", "4">>, <<"1", "2">>)
Url_2025_01 == ArchiveUrl(<<"2", "0", "2", "5">>, <<"0", "1">>)
Url_2025_10 == ArchiveUrl(<<"2", "0", "2", "5">>, <<"1", "0">>)
Url_2025_11 == ArchiveUrl(<<"2", "0", "2", "5">>, <<"1", "1">>)
Url_2025_12 == ArchiveUrl(<<"2", "0", "2", "5">>, <<"1", "2">>)
Url_2026_01 == ArchiveUrl(<<"2", "0", "2", "6">>, <<"0", "1">>)

RunUrls == {Url_2025_10, Url_2025_11}

IndexResponses(urls, n) ==
    {None, EmptyDict, [message |-> "moved"]}
        \cup {[archives |-> a] : a \in SeqsUpTo(urls, n)}

\* end times around the cutoffs: 2025-11-01 02:00 and 2025-11-16 12:00 (UTC) ...
RunEndTimes ==
    {DaysFromCivil(2025, 11, 1) * DaySeconds + 7200,
     DaysFromCivil(2025, 11, 16) * DaySeconds + 43200}

\* ... and 2025-10-31 12:00 and 2025-11-24 00:30 (UTC)
EndTimes ==
    RunEndTimes \cup {DaysFromCivil(2025, 10, 31) * DaySeconds + 43200,
                      DaysFromCivil(2025, 11, 24) * DaySeconds + 1800}

Subject == <<"K", "X", "R", "o", "o", "k">>
Opponent == <<"o", "p", "a", "l">>

Player(name, rating, result) == [username |-> name, rating |-> rating, result |-> result]

\* raw games of a run: the subject plays white and wins
RunGames ==
    {[end_time |-> t, time_class |-> tc, rules |-> r,
      white |-> Player(Subject, 1500, "win"), black |-> Player(Opponent, 1480, "resigned")] :
        t \in RunEndTimes, tc \in {"blitz", "bughouse"}, r \in {"chess", "chess960"}}

ArchiveResponses(games, n) ==
    {None, EmptyDict}
        \cup {[games |-> b] : b \in SeqsUpTo(games, n)}

\* raw games in the archive responses received so far
RECURSIVE GamesIn(_)
GamesIn(resps) ==
    IF resps = <<>> THEN 0
    ELSE (IF Truthy(Head(resps)) THEN Len(Get(Head(resps), "games", <<>>)) ELSE 0)
             + GamesIn(Tail(resps))

-----------------------------------------------------------------------------
(* The request: dashboard and process_all_modes, one action per step *)

DefaultInterval == 10

Init ==
    /\ pc = "profile"
    /\ START_DATE \in StartDates
    /\ utcoffset \in UTCOffsets
    /\ fetches = <<>>
    /\ profile = None
    /\ stats = None
    /\ current_ratings = EmptyDict
    /\ start_dt = None
    /\ all_archives = <<>>
    /\ relevant_archives = <<>>
    /\ fetched = <<>>
    /\ history_data = <<>>
    /\ df = None
    /\ GAME_INTERVAL = DefaultInterval
    /\ chart = None
    /\ response = None

\* dashboard, lines 673-676
FetchProfile ==
    /\ pc = "profile"
    /\ \E r \in ProfileResponses :
        /\ fetches' = Append(fetches, "profile")
        /\ profile' = r
        /\ IF ~Truthy(r)
           THEN pc' = "done" /\ response' = [page |-> "user_not_found"]
           ELSE pc' = "stats" /\ response' = response
    /\ UNCHANGED <<START_DATE, utcoffset, stats, current_ratings, start_dt, all_archives,
                   relevant_archives, fetched, history_data, df, GAME_INTERVAL, chart>>

\* dashboard, lines 682-696, with a failed stats fetch ending the request
FetchStatsAlt ==
    /\ pc = "stats"
    /\ \E r \in StatsResponses :
        /\ fetches' = Append(fetches, "stats")
        /\ stats' = r
        /\ current_ratings' = CurrentRatings(r)
        /\ IF ~Truthy(r)
           THEN pc' = "done" /\ response' = [page |-> "user_not_found"]
           ELSE pc' = "parse" /\ response' = response
    /\ UNCHANGED <<START_DATE, utcoffset, profile, start_dt, all_archives,
                   relevant_archives, fetched, history_data, df, GAME_INTERVAL, chart>>

\* dashboard, lines 682-696
FetchStats ==
    /\ pc = "stats"
    /\ \E r \in StatsResponses :
        /\ fetches' = Append(fetches, "stats")
        /\ stats' = r
        /\ current_ratings' = CurrentRatings(r)
    /\ pc' = "parse"
    /\ UNCHANGED <<START_DATE, utcoffset, profile, start_dt, all_archives,
                   relevant_archives, fetched, history_data, df, GAME_INTERVAL, chart,
                   response>>

\* process_all_modes, lines 47-52
ParseDate ==
    /\ pc = "parse"
    /\ start_dt' = Strptime(START_DATE)
    /\ IF start_dt' = ValueError
       THEN pc' = "check" /\ df' = DataFrame(<<>>)
       ELSE pc' = "index" /\ df' = df
    /\ UNCHANGED <<START_DATE, utcoffset, fetches, profile, stats, current_ratings, all_archives,
                   relevant_archives, fetched, history_data, GAME_INTERVAL, chart,
                   response>>

\* process_all_modes, lines 54-68
FetchIndex(responses) ==
    /\ pc = "index"
    /\ \E r \in responses :
        /\ fetches' = Append(fetches, "archives")
        /\ IF ~Truthy(r)
           THEN /\ pc' = "check"
                /\ df' = DataFrame(<<>>)
                /\ UNCHANGED <<all_archives, relevant_archives>>
           ELSE /\ pc' = "archive"
                /\ df' = df
                /\ all_archives' = Get(r, "archives", <<>>)
                /\ relevant_archives' = SelectArchives(all_archives', start_dt)
    /\ UNCHANGED <<START_DATE, utcoffset, profile, stats, current_ratings, start_dt, fetched,
                   history_data, GAME_INTERVAL, chart, response>>

start_timestamp == Timestamp(LocalMidnight(start_dt), utcoffset)

\* lines 74-116 with a failed fetch ending the loop
FetchArchiveAlt(responses) ==
    /\ pc = "archive"
    /\ Len(fetched) < Len(relevant_archives)
    /\ \E r \in responses :
        /\ fetches' = Append(fetches, "archive")
        /\ fetched' = Append(fetched, r)
        /\ history_data' =
               history_data \o ArchiveRecords(r, USERNAME, start_timestamp, utcoffset)
        /\ IF ~Truthy(r)
           THEN pc' = "check" /\ df' = DataFrame(history_data)
           ELSE pc' = pc /\ df' = df
    /\ UNCHANGED <<START_DATE, utcoffset, profile, stats, current_ratings, start_dt,
                   all_archives, relevant_archives, GAME_INTERVAL, chart, response>>

\* process_all_modes, lines 74-116: one pass of the loop over relevant_archives
FetchArchive(responses) ==
    /\ pc = "archive"
    /\ Len(fetched) < Len(relevant_archives)
    /\ \E r \in responses :
        /\ fetches' = Append(fetches, "archive")
        /\ fetched' = Append(fetched, r)
        /\ history_data' =
               history_data \o ArchiveRecords(r, USERNAME, start_timestamp, utcoffset)
    /\ UNCHANGED <<pc, START_DATE, utcoffset, profile, stats, current_ratings, start_dt,
                   all_archives, relevant_archives, df, GAME_INTERVAL, chart, response>>

\* process_all_modes, line 118
BuildFrame ==
    /\ pc = "archive"
    /\ Len(fetched) = Len(relevant_archives)
    /\ df' = DataFrame(history_data)
    /\ pc' = "check"
    /\ UNCHANGED <<START_DATE, utcoffset, fetches, profile, stats, current_ratings, start_dt,
                   all_archives, relevant_archives, fetched, history_data, GAME_INTERVAL,
                   chart, response>>

\* dashboard, lines 700-701
NoGames ==
    /\ pc = "check"
    /\ IsEmpty(df)
    /\ response' = [page |-> "no_games"]
    /\ pc' = "done"
    /\ UNCHANGED <<START_DATE, utcoffset, fetches, profile, stats, current_ratings, start_dt,
                   all_archives, relevant_archives, fetched, history_data, df,
                   GAME_INTERVAL, chart>>

-----------------------------------------------------------------------------
(* Helpers of the aggregators: pandas and numeric primitives *)

KeyError == [error |-> "KeyError"]

Message(text) == [kind |-> "message", text |-> text]

Dash == [dash |-> TRUE]

\* str comparison of the mode labels ('Blitz' < 'Blitz960' < 'Bullet' < ... < 'Rapid960')
ModeRank(mode) ==
    CASE mode = "Blitz" -> 1 [] mode = "Blitz960" -> 2
      [] mode = "Bullet" -> 3 [] mode = "Bullet960" -> 4
      [] mode = "Daily" -> 5 [] mode = "Daily960" -> 6
      [] mode = "Rapid" -> 7 [] mode = "Rapid960" -> 8

\* mode.replace('960', ' 960') if is_960 else mode
DisplayName(mode, is_960) ==
    IF ~is_960 THEN mode
    ELSE CASE mode = "Blitz960" -> "Blitz 960" [] mode = "Bullet960" -> "Bullet 960"
           [] mode = "Rapid960" -> "Rapid 960" [] mode = "Daily960" -> "Daily 960"
           [] OTHER -> mode

\* the elements of a finite set of integers in ascending order
RECURSIVE Ascending(_)
Ascending(S) ==
    IF S = {} THEN <<>>
    ELSE LET m == CHOOSE x \in S : \A y \in S : x <= y
         IN  <<m>> \o Ascending(S \ {m})

\* sorted(..., reverse=True) with the reversal left out
ReverseAlt(q) == q

\* sorted(..., reverse=True) of an ascending list
Reverse(q) == [i \in 1..Len(q) |-> q[Len(q) + 1 - i]]

\* the rows with Test true, in their order: df[mask]
Rows(rows, Test(_)) == SelectSeq(rows, Test)

\* the order of sort_values(['Mode', 'Date'])
ModeDateBefore(x, y) ==
    \/ ModeRank(x.Mode) < ModeRank(y.Mode)
    \/ (x.Mode = y.Mode /\ x.Date < y.Date)

\* row x placed into the sorted rows q, after every row that does not come after it
RECURSIVE InsertRow(_, _)
InsertRow(q, x) ==
    IF q = <<>> THEN <<x>>
    ELSE IF ModeDateBefore(x, Head(q)) THEN <<x>> \o q
    ELSE <<Head(q)>> \o InsertRow(Tail(q), x)

\* lines 275 with the sort left out
SortByModeDateAlt(rows) == rows

\* line 275: sort_values(['Mode', 'Date']), a stable sort
RECURSIVE SortByModeDate(_)
SortByModeDate(rows) ==
    IF rows = <<>> THEN <<>>
    ELSE InsertRow(SortByModeDate(SubSeq(rows, 1, Len(rows) - 1)), rows[Len(rows)])

RECURSIVE SumRatings(_)
SumRatings(rows) ==
    IF rows = <<>> THEN 0 ELSE Head(rows).Rating + SumRatings(Tail(rows))

CountWins(rows) == Len(Rows(rows, LAMBDA r : r.Status = "Win"))

\* round(num / den) for den > 0: to the nearest integer, a tie to the even one
RoundHalfEven(num, den) ==
    LET q == num \div den
        r == num % den
    IN  IF 2 * r < den THEN q
        ELSE IF 2 * r > den THEN q + 1
        ELSE IF q % 2 = 0 THEN q ELSE q + 1

\* the value an f"{x:.1f}" shows for the fraction x, in tenths
Tenths(x) == RoundHalfEven(x.num * 10, x.den)

\* Date.dt.date: the calendar day of a local datetime, in days since 1970-01-01
DateOnly(row) == row.Date \div DaySeconds

\* Date.dt.to_period('W') start_time: the Monday of the day's week (1970-01-01 is a Thursday)
WeekStart(row) == DateOnly(row) - ((DateOnly(row) + 3) % 7)

\* the civil date of a day number: strftime('%Y-%m-%d') of it
CivilFromDays(z) ==
    LET zz  == z + 719468
        era == zz \div 146097
        doe == zz - era * 146097
        yoe == (doe - doe \div 1460 + doe \div 36524 - doe \div 146096) \div 365
        doy == doe - (365 * yoe + yoe \div 4 - yoe \div 100)
        mp  == (5 * doy + 2) \div 153
        d   == doy - (153 * mp + 2) \div 5 + 1
        m   == IF mp < 10 THEN mp + 3 ELSE mp - 9
        y   == yoe + era * 400 + (IF m <= 2 THEN 1 ELSE 0)
    IN  [year |-> y, month |-> m, day |-> d]

\* df[df['Is960'] == is_960]
Variant(frame, is_960) == Rows(frame.rows, LAMBDA r : r.Is960 = is_960)

ModesOf(rows) == {rows[i].Mode : i \in 1..Len(rows)}

-----------------------------------------------------------------------------
(* create_overall_performance_chart *)

\* lines 121-139 with NonWins counting the losses only
OverallChartAlt(frame) ==
    IF IsEmpty(frame) THEN Message("No games found.")
    ELSE LET days == Ascending({DateOnly(frame.rows[i]) : i \in 1..Len(frame.rows)})
             Day(k) ==
                 LET of == Rows(frame.rows, LAMBDA r : DateOnly(r) = days[k])
                     wins == Len(Rows(of, LAMBDA r : r.Status = "Win"))
                     nonwins == Len(Rows(of, LAMBDA r : r.Status = "Loss"))
                 IN  [DateOnly |-> days[k], Wins |-> wins, NonWins |-> nonwins,
                      TotalGames |-> wins + nonwins]
         IN  [kind |-> "figure", daily_stats |-> [k \in 1..Len(days) |-> Day(k)]]

\* lines 121-139: the daily_stats the two bar traces are drawn from
OverallChart(frame) ==
    IF IsEmpty(frame) THEN Message("No games found.")
    ELSE LET days == Ascending({DateOnly(frame.rows[i]) : i \in 1..Len(frame.rows)})
             Day(k) ==
                 LET of == Rows(frame.rows, LAMBDA r : DateOnly(r) = days[k])
                     wins == Len(Rows(of, LAMBDA r : r.Status = "Win"))
                     nonwins == Len(Rows(of, LAMBDA r : r.Status # "Win"))
                 IN  [DateOnly |-> days[k], Wins |-> wins, NonWins |-> nonwins,
                      TotalGames |-> wins + nonwins]
         IN  [kind |-> "figure", daily_stats |-> [k \in 1..Len(days) |-> Day(k)]]

-----------------------------------------------------------------------------
(* create_daily_games_chart, create_daily_average_chart *)

\* the (DateOnly, Mode) groups of rows in groupby order: by day, then by mode label
DayModeKeys(rows) ==
    LET days == Ascending({DateOnly(rows[i]) : i \in 1..Len(rows)})
        ModesOn(d) == {ModeRank(rows[i].Mode) : i \in {j \in 1..Len(rows) : DateOnly(rows[j]) = d}}
        Mode(d, rank) == CHOOSE m \in ModesOf(rows) : ModeRank(m) = rank
        RECURSIVE Keys(_)
        Keys(k) ==
            IF k > Len(days) THEN <<>>
            ELSE LET ranks == Ascending(ModesOn(days[k]))
                 IN  [i \in 1..Len(ranks) |->
                         [DateOnly |-> days[k], Mode |-> Mode(days[k], ranks[i])]]
                     \o Keys(k + 1)
    IN  Keys(1)

\* lines 182-203
DailyGamesChart(frame, is_960) ==
    IF "Is960" \notin frame.columns THEN KeyError
    ELSE LET filtered == Variant(frame, is_960)
             keys == DayModeKeys(filtered)
             Games(k) == Len(Rows(filtered,
                             LAMBDA r : DateOnly(r) = k.DateOnly /\ r.Mode = k.Mode))
         IN  IF filtered = <<>> THEN Message("No games found for this variant.")
             ELSE [kind |-> "figure",
                   daily_counts |-> [i \in 1..Len(keys) |->
                       [DateOnly |-> keys[i].DateOnly, Mode |-> keys[i].Mode,
                        Games |-> Games(keys[i])]]]

\* lines 224-244
DailyAverageChart(frame, is_960) ==
    IF "Is960" \notin frame.columns THEN KeyError
    ELSE LET filtered == Variant(frame, is_960)
             keys == DayModeKeys(filtered)
             Of(k) == Rows(filtered, LAMBDA r : DateOnly(r) = k.DateOnly /\ r.Mode = k.Mode)
         IN  IF filtered = <<>> THEN Message("No games found for this variant.")
             ELSE [kind |-> "figure",
                   daily_avg |-> [i \in 1..Len(keys) |->
                       [DateOnly |-> keys[i].DateOnly, Mode |-> keys[i].Mode,
                        Rating |-> [num |-> SumRatings(Of(keys[i])),
                                    den |-> Len(Of(keys[i]))]]]]

-----------------------------------------------------------------------------
(* create_interval_table *)

\* lines 308 and 380
ModeList(is_960) ==
    IF is_960 THEN <<"Blitz960", "Bullet960", "Rapid960", "Daily960">>
    ELSE <<"Blitz", "Bullet", "Rapid", "Daily">>

\* the distinct modes of rows sorted by mode, in order of appearance: Mode.unique()
UniqueModes(sorted) ==
    LET ranks == Ascending({ModeRank(m) : m \in ModesOf(sorted)})
    IN  [i \in 1..Len(ranks) |-> CHOOSE m \in ModesOf(sorted) : ModeRank(m) = ranks[i]]

\* line 288 with the stop of the range one too low
CheckpointsAlt(n, interval) == [k \in 1..((n - 1) \div interval) |-> k * interval]

\* line 288: range(GAME_INTERVAL, len(mode_data) + 1, GAME_INTERVAL)
Checkpoints(n, interval) == [k \in 1..(n \div interval) |-> k * interval]

\* lines 290-300: the milestone of a mode at game_count
IntervalStat(mode, mode_data, game_count) ==
    LET games_up_to_interval == SubSeq(mode_data, 1, game_count)
        wins == CountWins(games_up_to_interval)
    IN  [Mode |-> mode,
         GamesPlayed |-> game_count,
         AverageRating |-> RoundHalfEven(SumRatings(games_up_to_interval), game_count),
         WinPct |-> [num |-> wins * 100, den |-> game_count]]

\* lines 285-300: interval_stats
IntervalStats(sorted, interval) ==
    LET modes == UniqueModes(sorted)
        OfMode(mode) ==
            LET mode_data == Rows(sorted, LAMBDA r : r.Mode = mode)
                cps == Checkpoints(Len(mode_data), interval)
            IN  [k \in 1..Len(cps) |-> IntervalStat(mode, mode_data, cps[k])]
        RECURSIVE From(_)
        From(i) == IF i > Len(modes) THEN <<>> ELSE OfMode(modes[i]) \o From(i + 1)
    IN  From(1)

\* lines 266-337: interval_stats, and the pivot table and header counts drawn from it
IntervalTable(frame, is_960, interval) ==
    IF "Is960" \notin frame.columns THEN KeyError
    ELSE LET filtered == Variant(frame, is_960)
             sorted == SortByModeDate(filtered)
             interval_stats == IntervalStats(sorted, interval)
             games_played ==
                 Ascending({interval_stats[i].GamesPlayed : i \in 1..Len(interval_stats)})
             mode_list == ModeList(is_960)
             Cell(mode, games) ==
                 LET row_data == Rows(interval_stats,
                                      LAMBDA st : st.Mode = mode /\ st.GamesPlayed = games)
                 IN  IF row_data # <<>>
                     THEN [rating |-> row_data[1].AverageRating,
                           win_pct_tenths |-> Tenths(row_data[1].WinPct)]
                     ELSE Dash
         IN  IF filtered = <<>> THEN Message("No games found for this variant.")
             ELSE IF interval_stats = <<>>
             THEN Message("Not enough games to show intervals yet.")
             ELSE [kind |-> "table",
                   interval_stats |-> interval_stats,
                   games_played |-> games_played,
                   cells |-> [i \in 1..Len(mode_list) |->
                       [k \in 1..Len(games_played) |-> Cell(mode_list[i], games_played[k])]],
                   total_games |-> [i \in 1..Len(mode_list) |->
                       Len(Rows(filtered, LAMBDA r : r.Mode = mode_list[i]))]]

-----------------------------------------------------------------------------
(* create_weekly_stats_table *)

\* lines 366-397 with week_data taken as the rows dated on the week's first day
WeeklyTableAlt(frame, is_960) ==
    IF "Is960" \notin frame.columns THEN KeyError
    ELSE LET filtered == Variant(frame, is_960)
             weeks == Reverse(Ascending({WeekStart(filtered[i]) : i \in 1..Len(filtered)}))
             mode_list == ModeList(is_960)
             Entry(week, mode) ==
                 LET mode_data == Rows(filtered,
                                       LAMBDA r : DateOnly(r) = week /\ r.Mode = mode)
                     total_games == Len(mode_data)
                     wins == CountWins(mode_data)
                 IN  IF total_games > 0
                     THEN [total_games |-> total_games,
                           win_pct_tenths |-> Tenths([num |-> wins * 100, den |-> total_games]),
                           avg_elo |-> RoundHalfEven(SumRatings(mode_data), total_games)]
                     ELSE Dash
         IN  IF filtered = <<>> THEN Message("No games found for this variant.")
             ELSE [kind |-> "table",
                   weekly_stats |-> [k \in 1..Len(weeks) |->
                       [Week |-> CivilFromDays(weeks[k]),
                        modes |-> [i \in 1..Len(mode_list) |-> Entry(weeks[k], mode_list[i])]]]]

\* lines 366-397: weekly_stats
WeeklyTable(frame, is_960) ==
    IF "Is960" \notin frame.columns THEN KeyError
    ELSE LET filtered == Variant(frame, is_960)
             weeks == Reverse(Ascending({WeekStart(filtered[i]) : i \in 1..Len(filtered)}))
             mode_list == ModeList(is_960)
             Entry(week, mode) ==
                 LET mode_data == Rows(filtered,
                                       LAMBDA r : WeekStart(r) = week /\ r.Mode = mode)
                     total_games == Len(mode_data)
                     wins == CountWins(mode_data)
                 IN  IF total_games > 0
                     THEN [total_games |-> total_games,
                           win_pct_tenths |-> Tenths([num |-> wins * 100, den |-> total_games]),
                           avg_elo |-> RoundHalfEven(SumRatings(mode_data), total_games)]
                     ELSE Dash
         IN  IF filtered = <<>> THEN Message("No games found for this variant.")
             ELSE [kind |-> "table",
                   weekly_stats |-> [k \in 1..Len(weeks) |->
                       [Week |-> CivilFromDays(weeks[k]),
                        modes |-> [i \in 1..Len(mode_list) |-> Entry(weeks[k], mode_list[i])]]]]

-----------------------------------------------------------------------------
(* create_rating_boxplot *)

\* line 453 with the bullet modes left out of the list
BoxModeListAlt(is_960) ==
    IF is_960 THEN <<"Rapid960", "Blitz960", "Daily960">>
    ELSE <<"Rapid", "Blitz", "Daily">>

\* line 453
BoxModeList(is_960) ==
    IF is_960 THEN <<"Rapid960", "Blitz960", "Bullet960", "Daily960">>
    ELSE <<"Rapid", "Blitz", "Bullet", "Daily">>

\* lines 432-464: the box traces
RatingBoxplot(frame, is_960) ==
    IF "Is960" \notin frame.columns THEN KeyError
    ELSE LET filtered == Variant(frame, is_960)
             mode_list == BoxModeList(is_960)
             Ratings(mode) ==
                 LET mode_data == Rows(filtered, LAMBDA r : r.Mode = mode)
                 IN  [i \in 1..Len(mode_data) |-> mode_data[i].Rating]
             RECURSIVE Traces(_)
             Traces(i) ==
                 IF i > Len(mode_list) THEN <<>>
                 ELSE (IF Ratings(mode_list[i]) # <<>>
                       THEN <<[name |-> DisplayName(mode_list[i], is_960),
                               y |-> Ratings(mode_list[i])]>>
                       ELSE <<>>) \o Traces(i + 1)
         IN  IF filtered = <<>> THEN Message("No games found for this variant.")
             ELSE [kind |-> "figure", traces |-> Traces(1)]

-----------------------------------------------------------------------------
(* dashboard: the page of a non-empty collection *)

\* line 704: df['Mode'].value_counts().to_dict()
GameCounts(frame) ==
    [m \in ModesOf(frame.rows) |-> Len(Rows(frame.rows, LAMBDA r : r.Mode = m))]

\* lines 703-741
Render ==
    /\ pc = "check"
    /\ ~IsEmpty(df)
    /\ response' =
           [page |-> "dashboard",
            game_counts |-> GameCounts(df),
            current_ratings |-> current_ratings,
            chart_overall |-> OverallChart(df),
            chart0 |-> [v \in BOOLEAN |-> DailyGamesChart(df, v)],
            chart1 |-> [v \in BOOLEAN |-> DailyAverageChart(df, v)],
            chart2 |-> [v \in BOOLEAN |-> IntervalTable(df, v, GAME_INTERVAL)],
            chart3 |-> [v \in BOOLEAN |-> WeeklyTable(df, v)],
            chart4 |-> [v \in BOOLEAN |-> RatingBoxplot(df, v)]]
    /\ pc' = "done"
    /\ UNCHANGED <<START_DATE, utcoffset, fetches, profile, stats, current_ratings, start_dt,
                   all_archives, relevant_archives, fetched, history_data, df,
                   GAME_INTERVAL, chart>>

Next ==
    \/ FetchProfile
    \/ FetchStats
    \/ ParseDate
    \/ FetchIndex(IndexResponses(RunUrls, MaxArchives))
    \/ FetchArchive(ArchiveResponses(RunGames, MaxGames - GamesIn(fetched)))
    \/ BuildFrame
    \/ NoGames
    \/ Render

Spec == Init /\ [][Next]_vars

-----------------------------------------------------------------------------
(* The archive selection alone: process_all_modes from the index fetch on *)

MaxListed == 3      \* archive URLs in an index response of SpecSelect

SelectDates == {Text_2025_11_01, Text_2025_11_15, Text_2025_1_5, Text_2026_01_01}

SelectUrls == {Url_2024_12, Url_2025_01, Url_2025_10, Url_2025_11, Url_2025_12, Url_2026_01}

ExampleArchives == <<Url_2025_10, Url_2025_11, Url_2025_12, Url_2026_01>>

InitSelect ==
    /\ pc = "index"
    /\ START_DATE \in SelectDates
    /\ utcoffset \in UTCOffsets
    /\ fetches = <<"profile", "stats">>
    /\ profile = [username |-> "kxrook"]
    /\ stats = EmptyDict
    /\ current_ratings = EmptyDict
    /\ start_dt = Strptime(START_DATE)
    /\ all_archives = <<>>
    /\ relevant_archives = <<>>
    /\ fetched = <<>>
    /\ history_data = <<>>
    /\ df = None
    /\ GAME_INTERVAL = DefaultInterval
    /\ chart = None
    /\ response = None

NextSelect ==
    FetchIndex(IndexResponses(SelectUrls, MaxListed) \cup {[archives |-> ExampleArchives]})

SpecSelect == InitSelect /\ [][NextSelect]_vars

-----------------------------------------------------------------------------
(* The normalisation alone: one pass of the archive loop over one raw game *)

ResultCodes == DrawOrWinCodes \cup LossCodes \cup {"unknown_code", "lose"}

\* raw games of every shape; a game may lack the 'rules' key
AllGames ==
    LET full == {[end_time |-> t, time_class |-> tc, rules |-> r,
                  white |-> Player(w, 1500, wr), black |-> Player(b, 1480, br)] :
                    t \in EndTimes, tc \in TimeClasses \cup {"bughouse"},
                    r \in {"chess", "chess960"},
                    w \in {Subject, Opponent}, b \in {USERNAME, Opponent},
                    wr \in ResultCodes, br \in {"win", "timeout", "stalemate"}}
    IN  full \cup {[k \in DOMAIN g \ {"rules"} |-> g[k]] : g \in {h \in full : h.rules = "chess"}}

InitNormalize ==
    /\ pc = "archive"
    /\ START_DATE \in ValidDates
    /\ utcoffset \in UTCOffsets
    /\ fetches = <<"profile", "stats", "archives">>
    /\ profile = [username |-> "kxrook"]
    /\ stats = EmptyDict
    /\ current_ratings = EmptyDict
    /\ start_dt = Strptime(START_DATE)
    /\ all_archives = <<Url_2025_11>>
    /\ relevant_archives = <<Url_2025_11>>
    /\ fetched = <<>>
    /\ history_data = <<>>
    /\ df = None
    /\ GAME_INTERVAL = DefaultInterval
    /\ chart = None
    /\ response = None

NextNormalize ==
    \/ FetchArchive({[games |-> <<g>>] : g \in AllGames})
    \/ BuildFrame

SpecNormalize == InitNormalize /\ [][NextNormalize]_vars

-----------------------------------------------------------------------------
(* The aggregators alone, each called on a collection process_all_modes can return *)

\* local datetimes: Sunday 2025-11-02 23:00, Monday 2025-11-03 01:00, Tuesday 2025-11-04 10:00
FrameDates ==
    {DaysFromCivil(2025, 11, 2) * DaySeconds + 82800,
     DaysFromCivil(2025, 11, 3) * DaySeconds + 3600,
     DaysFromCivil(2025, 11, 4) * DaySeconds + 36000}

Row(d, r, time_class, is_960, st) ==
    [Date |-> d, Rating |-> r, Mode |-> ModeName(time_class, is_960), Status |-> st,
     Is960 |-> is_960]

\* standard blitz and bullet rows of every date, rating and status, and chess960 blitz rows
FrameRows ==
    {Row(d, r, tc, FALSE, st) :
        d \in FrameDates, r \in {1500, 1501}, tc \in {"blitz", "bullet"},
        st \in {"Win", "Draw", "Loss"}}
    \cup {Row(d, 1500, "blitz", TRUE, st) : d \in FrameDates, st \in {"Win", "Loss"}}

\* 25 blitz games an hour apart, listed out of date order
ExampleRows ==
    [i \in 1..25 |->
        [Date |-> DaysFromCivil(2025, 11, 3) * DaySeconds + 3600 * ((i * 7) % 25),
         Rating |-> 1500 + ((i * 3) % 11),
         Mode |-> ModeName("blitz", FALSE),
         Status |-> IF i % 3 = 0 THEN "Win" ELSE IF i % 3 = 1 THEN "Loss" ELSE "Draw",
         Is960 |-> FALSE]]

InitAggregate ==
    /\ pc = "charts"
    /\ START_DATE = Text_2025_11_01
    /\ utcoffset = 0
    /\ fetches = <<>>
    /\ profile = None
    /\ stats = None
    /\ current_ratings = EmptyDict
    /\ start_dt = Strptime(START_DATE)
    /\ all_archives = <<>>
    /\ relevant_archives = <<>>
    /\ fetched = <<>>
    /\ history_data \in SeqsUpTo(FrameRows, MaxRecords) \cup {ExampleRows}
    /\ df = DataFrame(history_data)
    /\ GAME_INTERVAL = DefaultInterval
    /\ chart = None
    /\ response = None

\* the values GAME_INTERVAL is configured to
Intervals == 1..MaxInterval \cup {DefaultInterval}

Call(fn, is_960, interval, result) ==
    /\ pc = "charts"
    /\ GAME_INTERVAL' = interval
    /\ chart' = [fn |-> fn, is_960 |-> is_960, result |-> result]
    /\ pc' = "called"
    /\ UNCHANGED <<START_DATE, utcoffset, fetches, profile, stats, current_ratings, start_dt,
                   all_archives, relevant_archives, fetched, history_data, df, response>>

CallOverall ==
    Call("create_overall_performance_chart", FALSE, GAME_INTERVAL, OverallChart(df))

CallDailyGames ==
    \E v \in BOOLEAN :
        Call("create_daily_games_chart", v, GAME_INTERVAL, DailyGamesChart(df, v))

CallDailyAverage ==
    \E v \in BOOLEAN :
        Call("create_daily_average_chart", v, GAME_INTERVAL, DailyAverageChart(df, v))

\* create_interval_table, with GAME_INTERVAL configured to n
CallInterval ==
    \E v \in BOOLEAN, n \in Intervals :
        Call("create_interval_table", v, n, IntervalTable(df, v, n))

CallWeekly ==
    \E v \in BOOLEAN :
        Call("create_weekly_stats_table", v, GAME_INTERVAL, WeeklyTable(df, v))

CallBoxplot ==
    \E v \in BOOLEAN :
        Call("create_rating_boxplot", v, GAME_INTERVAL, RatingBoxplot(df, v))

NextAggregate ==
    \/ CallOverall
    \/ CallDailyGames
    \/ CallDailyAverage
    \/ CallInterval
    \/ CallWeekly
    \/ CallBoxplot

SpecAggregate == InitAggregate /\ [][NextAggregate]_vars

-----------------------------------------------------------------------------
(* Claims *)

\* the raw games of the archive responses received so far, in order
RECURSIVE FetchedGames(_)
FetchedGames(resps) ==
    IF resps = <<>> THEN <<>>
    ELSE (IF Truthy(Head(resps)) THEN Get(Head(resps), "games", <<>>) ELSE <<>>)
             \o FetchedGames(Tail(resps))

\* the collection as far as it is built, and as returned once the frame exists
Collection == IF df # None THEN df.rows ELSE history_data

AfterCutoff(r) == r.Date >= LocalMidnight(start_dt)

\* C1 as stated: every record of the collection ends at or after the cutoff and has
\* a mode among Rapid, Blitz, Bullet, Daily.
C1_RecordsAfterCutoffInFourModes ==
    \A i \in 1..Len(Collection) :
        /\ AfterCutoff(Collection[i])
        /\ Collection[i].Mode \in {"Rapid", "Blitz", "Bullet", "Daily"}

\* C1 as amended: every record of the collection ends at or after the cutoff and comes
\* from a game of time class rapid, blitz, bullet or daily, its mode label being the
\* capitalised class, with "960" appended for a chess960 game; and the games before
\* the cutoff or of another time class produce no record (there are exactly as many
\* records as fetched games at or after the cutoff in one of the four classes).
C1_RecordsAfterCutoffInFourClasses ==
    /\ \A i \in 1..Len(Collection) :
        /\ AfterCutoff(Collection[i])
        /\ IF Collection[i].Is960
           THEN Collection[i].Mode \in {"Rapid960", "Blitz960", "Bullet960", "Daily960"}
           ELSE Collection[i].Mode \in {"Rapid", "Blitz", "Bullet", "Daily"}
    /\ Len(history_data) =
           Cardinality({k \in 1..Len(FetchedGames(fetched)) :
               /\ FetchedGames(fetched)[k].end_time >= start_timestamp
               /\ FetchedGames(fetched)[k].time_class
                      \in {"rapid", "blitz", "bullet", "daily"}})

\* a finished run that kept a chess960 game and dropped another game
C1_Witness ==
    /\ pc = "done"
    /\ \E i \in 1..Len(Collection) : Collection[i].Is960
    /\ Len(FetchedGames(fetched)) > Len(Collection)

\* C2: with a START_DATE that does not parse, no fetch of the profile, the stats, the
\* archive index or an archive is ever made, and the request ends in an explicit
\* configuration failure.
C2_ConfigFailureBeforeAnyFetch ==
    Strptime(START_DATE) = ValueError =>
        /\ fetches = <<>>
        /\ pc = "done" => response = [page |-> "config_error"]

\* C3: the selected archives are exactly the references of the index whose
\* (year, month) is not before the cutoff's, in the order of the index; with cutoff
\* (2025, 11), the index (2025,10), (2025,11), (2025,12), (2026,1) gives the last three.
C3_SelectionIsSubsequenceFromCutoffMonth ==
    pc = "archive" =>
        LET n == Len(all_archives)
            MonthNo(y, m) == 12 * y + m
            kept == {i \in 1..n :
                        MonthNo(ArchiveYear(all_archives[i]), ArchiveMonth(all_archives[i]))
                            >= MonthNo(start_dt.year, start_dt.month)}
            \* the k-th smallest index kept
            Nth(k) == CHOOSE i \in kept : Cardinality({j \in kept : j <= i}) = k
        IN  /\ Len(relevant_archives) = Cardinality(kept)
            /\ \A k \in 1..Cardinality(kept) : relevant_archives[k] = all_archives[Nth(k)]
            /\ \A i \in 1..n :
                   /\ ArchiveYear(all_archives[i]) < start_dt.year => i \notin kept
                   /\ ArchiveYear(all_archives[i]) > start_dt.year => i \in kept
            /\ (all_archives = ExampleArchives /\ start_dt.year = 2025 /\ start_dt.month = 11)
                   => relevant_archives = <<Url_2025_11, Url_2025_12, Url_2026_01>>

\* the example of the claim, selected
C3_Witness ==
    /\ pc = "archive"
    /\ all_archives = ExampleArchives
    /\ start_dt.year = 2025 /\ start_dt.month = 11
    /\ relevant_archives = <<Url_2025_11, Url_2025_12, Url_2026_01>>

\* the game of the single archive response of SpecNormalize
TheGame == fetched[1].games[1]

\* C4: the status of a record is Win for the subject's result code 'win', Draw for
\* agreed, repetition, stalemate, insufficient_material, 50move and
\* timevsinsufficientmaterial, Loss for checkmated, resigned, timeout and abandoned,
\* and Draw for every other code.
C4_StatusByResultCode ==
    (Len(fetched) = 1 /\ Len(history_data) = 1) =>
        LET code == TheGame[UserColor(TheGame, USERNAME)].result
            status == history_data[1].Status
        IN  /\ code = "win" => status = "Win"
            /\ code \in {"agreed", "repetition", "stalemate", "insufficient_material",
                         "50move", "timevsinsufficientmaterial"} => status = "Draw"
            /\ code \in {"checkmated", "resigned", "timeout", "abandoned"} => status = "Loss"
            /\ code \notin {"win", "agreed", "repetition", "stalemate",
                            "insufficient_material", "50move", "timevsinsufficientmaterial",
                            "checkmated", "resigned", "timeout", "abandoned"}
                   => status = "Draw"

\* a record made from a game whose result code is in none of the lists
C4_Witness ==
    /\ Len(fetched) = 1 /\ Len(history_data) = 1
    /\ TheGame[UserColor(TheGame, USERNAME)].result = "unknown_code"
    /\ history_data[1].Status = "Draw"

\* the records the responses resps[k..] yield when the failed ones (None) yield nothing
RECURSIVE YieldOfFetched(_, _)
YieldOfFetched(resps, k) ==
    IF k > Len(resps) THEN <<>>
    ELSE (IF resps[k] = None THEN <<>>
          ELSE ProcessGames(Get(resps[k], "games", <<>>), USERNAME, start_timestamp,
                            utcoffset))
             \o YieldOfFetched(resps, k + 1)

\* C5: whichever archive fetches fail, the loop visits every selected archive, and the
\* collection is the records of the archives fetched successfully, in archive order,
\* with nothing from the failed ones.
C5_FailedArchiveIsSkipped ==
    /\ (pc \in {"check", "done"} /\ relevant_archives # <<>>)
           => Len(fetched) = Len(relevant_archives)
    /\ pc = "archive" => history_data = YieldOfFetched(fetched, 1)
    /\ (pc \in {"check", "done"} /\ fetched # <<>>) => df.rows = YieldOfFetched(fetched, 1)

\* a finished run whose first archive fetch failed and whose second one gave a record
C5_Witness ==
    /\ pc = "done"
    /\ Len(fetched) = 2
    /\ fetched[1] = None
    /\ df.rows # <<>>

Parsable == Strptime(START_DATE) # ValueError

\* C6 as stated: when the profile fetch or the stats fetch fails, the request still
\* fetches the archives, builds the collection and answers with the aggregates.
C6_ProfileOrStatsFailureNotFatal ==
    (pc = "done" /\ Parsable /\ (~Truthy(profile) \/ ~Truthy(stats))) =>
        /\ \E i \in 1..Len(fetches) : fetches[i] = "archives"
        /\ df # None
        /\ response.page \in {"dashboard", "no_games"}

\* C6 as amended: a failed stats fetch is not fatal: process_all_modes still runs (and
\* fetches the archive index when START_DATE parses), the collection is built and the
\* request answers with the page for it, the current ratings being empty; a failed
\* profile fetch ends the request with "User not found" and nothing else is fetched.
C6_StatsFailureNotFatalProfileFailureIs ==
    pc = "done" =>
        /\ ~Truthy(profile) =>
               /\ response = [page |-> "user_not_found"]
               /\ fetches = <<"profile">>
               /\ df = None
        /\ (Truthy(profile) /\ ~Truthy(stats)) =>
               /\ current_ratings = EmptyDict
               /\ df # None
               /\ Parsable => \E i \in 1..Len(fetches) : fetches[i] = "archives"
               /\ response.page \in {"dashboard", "no_games"}
               /\ response.page = "dashboard" =>
                      /\ response.current_ratings = EmptyDict
                      /\ response.chart_overall.kind = "figure"

\* a dashboard page produced after the stats fetch failed
C6_Witness ==
    /\ pc = "done"
    /\ Truthy(profile)
    /\ stats = None
    /\ response.page = "dashboard"

\* C7: called on an empty collection as process_all_modes returns it, every aggregator
\* returns its "no games" message and none raises.
C7_EmptyCollectionGivesMessage ==
    (pc = "called" /\ df.rows = <<>>) =>
        /\ chart.result # KeyError
        /\ chart.result.kind = "message"

Called(fn) == pc = "called" /\ chart.fn = fn /\ chart.result # KeyError

\* C8: the overall daily series has one entry per calendar day with a record, in
\* ascending order of day; its Wins is the number of that day's records with status
\* Win, its NonWins the number with any other status, and the two sum to the number
\* of records of the day.
C8_DailyWinsAndNonWins ==
    (Called("create_overall_performance_chart") /\ chart.result.kind = "figure") =>
        LET ds == chart.result.daily_stats
            n == Len(df.rows)
            OnDay(d) == {i \in 1..n : df.rows[i].Date \div DaySeconds = d}
        IN  /\ {ds[k].DateOnly : k \in 1..Len(ds)} =
                   {df.rows[i].Date \div DaySeconds : i \in 1..n}
            /\ \A k \in 1..(Len(ds) - 1) : ds[k].DateOnly < ds[k + 1].DateOnly
            /\ \A k \in 1..Len(ds) :
                   /\ ds[k].Wins =
                          Cardinality({i \in OnDay(ds[k].DateOnly) : df.rows[i].Status = "Win"})
                   /\ ds[k].NonWins =
                          Cardinality({i \in OnDay(ds[k].DateOnly) :
                                          df.rows[i].Status \in {"Draw", "Loss"}})
                   /\ ds[k].Wins + ds[k].NonWins = Cardinality(OnDay(ds[k].DateOnly))

\* an overall series of two days, one of them with a win and a draw
C8_Witness ==
    /\ Called("create_overall_performance_chart")
    /\ chart.result.kind = "figure"
    /\ \E i \in 1..Len(df.rows) : df.rows[i].Status = "Draw"
    /\ \E k \in 1..Len(chart.result.daily_stats) :
           chart.result.daily_stats[k].Wins = 1 /\ chart.result.daily_stats[k].NonWins = 1

\* the milestones a call of create_interval_table emitted
Emitted == IF chart.result.kind = "table" THEN chart.result.interval_stats ELSE <<>>

\* the rows of the called variant with mode label m, as indices into df.rows
OfMode(m) == {i \in 1..Len(df.rows) : df.rows[i].Is960 = chart.is_960 /\ df.rows[i].Mode = m}

AllModes == {"Blitz", "Bullet", "Rapid", "Daily", "Blitz960", "Bullet960", "Rapid960", "Daily960"}

\* C9: for each mode the milestones emitted are at the game counts N, 2N, 3N, ... up to
\* the number of the mode's records, in increasing order, one each: none at a count
\* that is no multiple of N, none past the last full multiple, none for a mode with
\* fewer than N records (N = 10 and 25 records give 10 and 20).
C9_MilestonesAtMultiplesOfInterval ==
    Called("create_interval_table") =>
        /\ \A m \in AllModes :
               LET of == SelectSeq(Emitted, LAMBDA st : st.Mode = m)
                   count == Cardinality(OfMode(m))
               IN  /\ \A k \in 1..Len(of) : of[k].GamesPlayed = k * GAME_INTERVAL
                   /\ Len(of) * GAME_INTERVAL <= count
                   /\ count < (Len(of) + 1) * GAME_INTERVAL
        /\ \A k \in 1..Len(Emitted) : Emitted[k].Mode \in AllModes
        /\ (GAME_INTERVAL = 10 /\ Cardinality(OfMode("Blitz")) = 25)
               => {st.GamesPlayed : st \in {Emitted[k] : k \in {j \in 1..Len(Emitted) :
                                                  Emitted[j].Mode = "Blitz"}}} = {10, 20}

\* the 25 blitz games with N = 10: milestones at 10 and 20
C9_Witness ==
    /\ Called("create_interval_table")
    /\ GAME_INTERVAL = 10
    /\ Cardinality(OfMode("Blitz")) = 25
    /\ Len(Emitted) = 2
    /\ Emitted[1].GamesPlayed = 10 /\ Emitted[2].GamesPlayed = 20

\* the sets of c rows of mode m that come first in ascending order of Date
FirstByDate(m, c) ==
    LET rows == OfMode(m)
        t == CHOOSE t \in {df.rows[i].Date : i \in rows} :
                 /\ Cardinality({i \in rows : df.rows[i].Date < t}) < c
                 /\ c <= Cardinality({i \in rows : df.rows[i].Date <= t})
        before == {i \in rows : df.rows[i].Date < t}
        at == {i \in rows : df.rows[i].Date = t}
    IN  {before \cup T : T \in {U \in SUBSET at : Cardinality(U) = c - Cardinality(before)}}

RECURSIVE SumOver(_)
SumOver(S) ==
    IF S = {} THEN 0
    ELSE LET i == CHOOSE j \in S : TRUE IN df.rows[i].Rating + SumOver(S \ {i})

\* C10: each milestone (mode, c) is computed over the c records of the mode that come
\* first in ascending order of timestamp: its average rating is the integer nearest
\* to the mean of their ratings, its win percentage the number of wins among them
\* divided by c, times 100.
C10_MilestoneOverFirstGames ==
    Called("create_interval_table") =>
        \A k \in 1..Len(Emitted) :
            LET st == Emitted[k]
                c == st.GamesPlayed
            IN  \E S \in FirstByDate(st.Mode, c) :
                    LET sum == SumOver(S)
                        wins == Cardinality({i \in S : df.rows[i].Status = "Win"})
                        diff == st.AverageRating * c - sum
                    IN  /\ 2 * diff <= c /\ -2 * diff <= c
                        /\ st.WinPct.num * c = 100 * wins * st.WinPct.den

\* a milestone after one game, of a mode whose earliest game is not listed first
C10_Witness ==
    /\ Called("create_interval_table")
    /\ \E k \in 1..Len(Emitted) :
           /\ Emitted[k].GamesPlayed = 1
           /\ \E i, j \in OfMode(Emitted[k].Mode) :
                  /\ i < j
                  /\ df.rows[j].Date < df.rows[i].Date
                  /\ df.rows[j].Rating # df.rows[i].Rating
                  /\ Emitted[k].AverageRating = df.rows[j].Rating

\* the week rows of the weekly table, none when the call gave a message
WeekRows == IF chart.result.kind = "table" THEN chart.result.weekly_stats ELSE <<>>

\* the rows of the collection of the variant the aggregator was called for
OfVariant == {i \in 1..Len(df.rows) : df.rows[i].Is960 = chart.is_960}

\* the game count a week row shows for mode m: 0 under the marker or without a column
WeekCount(row, m) ==
    LET cols == {i \in 1..Len(row.modes) : ModeList(chart.is_960)[i] = m}
    IN  IF cols = {} THEN 0
        ELSE LET i == CHOOSE j \in cols : TRUE
             IN  IF row.modes[i] = Dash THEN 0 ELSE row.modes[i].total_games

RECURSIVE SumWeekCounts(_, _)
SumWeekCounts(rows, m) ==
    IF rows = <<>> THEN 0 ELSE WeekCount(Head(rows), m) + SumWeekCounts(Tail(rows), m)

\* C11: in the weekly table of a variant, the game counts of a mode summed over all
\* week rows equal the number of records of that mode and variant in the collection,
\* so every record is counted in exactly one week row.
C11_WeeklyCountsSumToModeTotal ==
    (Called("create_weekly_stats_table") /\ chart.result.kind = "table") =>
        \A m \in AllModes :
            SumWeekCounts(WeekRows, m)
                = Cardinality({i \in OfVariant : df.rows[i].Mode = m})

\* a mode with records in two different weeks, one counted in each week row
C11_Witness ==
    /\ Called("create_weekly_stats_table")
    /\ Len(WeekRows) = 2
    /\ \E m \in AllModes :
           /\ WeekCount(WeekRows[1], m) = 1
           /\ WeekCount(WeekRows[2], m) = 1
           /\ Cardinality({i \in OfVariant : df.rows[i].Mode = m}) = 2

\* the day number of the week start a week row shows
WeekDay(row) == DaysFromCivil(row.Week.year, row.Week.month, row.Week.day)

\* the four recognized modes of a variant
FourModes(is_960) ==
    IF is_960 THEN {"Blitz960", "Bullet960", "Rapid960", "Daily960"}
    ELSE {"Blitz", "Bullet", "Rapid", "Daily"}

\* the records of mode m and of the called variant dated in the seven days from day w
InWeek(w, m) ==
    {i \in OfVariant : /\ df.rows[i].Mode = m
                       /\ w * DaySeconds <= df.rows[i].Date
                       /\ df.rows[i].Date < (w + 7) * DaySeconds}

\* C12: the week rows of the weekly table are in strictly descending order of week
\* start, and every week row has one entry for each of the four modes of the variant:
\* the count, the win percentage and the rounded average rating of the records of that
\* week and mode when there is one, the marker "-" when there is none.
C12_WeeksDescendingEveryModeHasEntry ==
    (Called("create_weekly_stats_table") /\ chart.result.kind = "table") =>
        /\ \A k \in 1..(Len(WeekRows) - 1) : WeekDay(WeekRows[k]) > WeekDay(WeekRows[k + 1])
        /\ \A k \in 1..Len(WeekRows) :
               /\ Len(WeekRows[k].modes) = 4
               /\ \A m \in FourModes(chart.is_960) :
                      \E i \in 1..4 :
                          /\ ModeList(chart.is_960)[i] = m
                          /\ LET entry == WeekRows[k].modes[i]
                                 recs == InWeek(WeekDay(WeekRows[k]), m)
                                 n == Cardinality(recs)
                                 wins == Cardinality({j \in recs : df.rows[j].Status = "Win"})
                             IN  IF n = 0 THEN entry = Dash
                                 ELSE /\ entry # Dash
                                      /\ entry.total_games = n
                                      /\ LET d == entry.win_pct_tenths * n - wins * 1000
                                         IN  2 * d <= n /\ -2 * d <= n
                                      /\ LET d == entry.avg_elo * n - SumOver(recs)
                                         IN  2 * d <= n /\ -2 * d <= n

\* two week rows, the later week first, the first with figures for one mode and the
\* marker for another
C12_Witness ==
    /\ Called("create_weekly_stats_table")
    /\ Len(WeekRows) = 2
    /\ WeekDay(WeekRows[1]) = WeekDay(WeekRows[2]) + 7
    /\ \E i, j \in 1..4 :
           /\ WeekRows[1].modes[i] = Dash
           /\ WeekRows[1].modes[j] # Dash
           /\ WeekRows[1].modes[j].total_games = 1

\* the box traces of the distribution figure, none when the call gave a message
Traces == IF chart.result.kind = "figure" THEN chart.result.traces ELSE <<>>

\* the name a mode is shown under for the called variant
ShownAs(m) ==
    IF ~chart.is_960 THEN m
    ELSE CASE m = "Blitz960" -> "Blitz 960" [] m = "Bullet960" -> "Bullet 960"
           [] m = "Rapid960" -> "Rapid 960" [] m = "Daily960" -> "Daily 960"

\* the ratings of the records whose positions are in S, in the collection's order
RECURSIVE RatingsOf(_)
RatingsOf(S) ==
    IF S = {} THEN <<>>
    ELSE LET i == CHOOSE j \in S : \A l \in S : j <= l
         IN  <<df.rows[i].Rating>> \o RatingsOf(S \ {i})

\* C13: the distribution figure of a variant has exactly one trace for each mode with at
\* least one record of the variant, holding the ratings of all records of that mode and
\* variant, and no trace for a mode without records of the variant.
C13_OneSamplePerModeWithRecords ==
    (Called("create_rating_boxplot") /\ chart.result.kind = "figure") =>
        /\ \A m \in FourModes(chart.is_960) :
               LET recs == {i \in OfVariant : df.rows[i].Mode = m}
                   of_m == {k \in 1..Len(Traces) : Traces[k].name = ShownAs(m)}
               IN  IF recs = {} THEN of_m = {}
                   ELSE /\ Cardinality(of_m) = 1
                        /\ \A k \in of_m : Traces[k].y = RatingsOf(recs)
        /\ \A k \in 1..Len(Traces) :
               \E m \in FourModes(chart.is_960) : Traces[k].name = ShownAs(m)
        /\ \A i \in OfVariant : df.rows[i].Mode \in FourModes(chart.is_960)

\* a figure with the single trace of the one mode that has records of the variant,
\* holding the two different ratings of its two records in the collection's order
C13_Witness ==
    /\ Called("create_rating_boxplot")
    /\ Len(Traces) = 1
    /\ Cardinality(OfVariant) = 2 /\ Len(df.rows) = 2
    /\ Traces[1].y = <<df.rows[1].Rating, df.rows[2].Rating>>
    /\ df.rows[1].Rating # df.rows[2].Rating

\* the side of the game of SpecNormalize that the claim calls the subject's side
SubjectSide ==
    IF Lower(TheGame.white.username) = Lower(USERNAME) THEN TheGame.white ELSE TheGame.black

\* C14: the subject's side of a normalized game is white iff the white username equals
\* the subject username ignoring letter case and black otherwise, also when the subject
\* is on neither side; the record's rating and the classified result code are both
\* those of that side.
C14_RatingAndResultFromSubjectSide ==
    (Len(fetched) = 1 /\ Len(history_data) = 1) =>
        /\ history_data[1].Rating = SubjectSide.rating
        /\ history_data[1].Status = GameStatus(SubjectSide.result)
        /\ (TheGame.white.username \in {Subject, USERNAME}) <=> (SubjectSide = TheGame.white)

\* a record of a game whose white username differs from the subject's only in letter
\* case: white's rating, and Loss from white's code although black's code is a win
C14_Witness ==
    /\ Len(fetched) = 1 /\ Len(history_data) = 1
    /\ TheGame.white.username = Subject
    /\ TheGame.white.username # USERNAME
    /\ TheGame.white.result = "checkmated" /\ TheGame.black.result = "win"
    /\ history_data[1].Rating = TheGame.white.rating
    /\ TheGame.white.rating # TheGame.black.rating
    /\ history_data[1].Status = "Loss"

\* the capitalized time class, with the suffix "960" when flagged
Label(time_class, flagged) ==
    LET name == CASE time_class = "rapid" -> "Rapid" [] time_class = "blitz" -> "Blitz"
                  [] time_class = "bullet" -> "Bullet" [] time_class = "daily" -> "Daily"
    IN  IF flagged THEN name \o "960" ELSE name

\* the entries of a list
Range(q) == {q[i] : i \in 1..Len(q)}

\* C15: the mode label of every record process_all_modes emits is the capitalized time
\* class of its game, with the suffix "960" exactly when the record's Is960 flag is
\* true, so the label of a record of variant v is one of the four modes of v and is in
\* the mode lists the weekly, interval and distribution aggregators iterate over for v.
C15_LabelMatchesVariantFlag ==
    (Len(fetched) = 1 /\ Len(history_data) = 1) =>
        LET r == history_data[1]
        IN  /\ r.Mode = Label(TheGame.time_class, r.Is960)
            /\ r.Mode \in FourModes(r.Is960)
            /\ r.Mode \notin FourModes(~r.Is960)
            /\ r.Mode \in Range(ModeList(r.Is960))
            /\ r.Mode \in Range(BoxModeList(r.Is960))

\* the record of a daily chess960 game: flagged, and labelled Daily960
C15_Witness ==
    /\ Len(fetched) = 1 /\ Len(history_data) = 1
    /\ TheGame.time_class = "daily"
    /\ "rules" \in DOMAIN TheGame /\ TheGame.rules = "chess960"
    /\ history_data[1].Is960
    /\ history_data[1].Mode = "Daily960"

=============================================================================
